---- MODULE Spec2Model ----
(***************************************************************************)
(* A model of imagedisplay.py: the palette table, the renderer             *)
(* (image_to_str), the frame sequencer (TerminalImage.__init__), the       *)
(* loader with its video fallback (TerminalImage.from_path, video_to_gif)  *)
(* and the player (TerminalImage.show) writing to a terminal.              *)
(*                                                                         *)
(* Text is a sequence of tokens: an escape code, the block character or a  *)
(* newline.  A Python call that may raise returns a record                 *)
(* [exc |-> <exception>, val |-> <value>].                                 *)
(***************************************************************************)
EXTENDS Integers, Sequences, FiniteSets, TLC

\* ------------------------------------------------------------- bounds
\* Largest terminal (columns, lines) whose renderings are enumerated.
MaxCols == 4
MaxLines == 4
\* Most frames of a decoded image, and the largest finite repeat count.
MaxFrames == 2
MaxRepeat == 1

\* ---------------------------------------------------------- exceptions
NoExc == [type |-> "none", msg |-> <<>>]
Exc(type, msg) == [type |-> type, msg |-> msg]
Ok(v) == [exc |-> NoExc, val |-> v]
Raise(e) == [exc |-> e, val |-> <<>>]

\* The base class of each exception class the program meets.
Parent(cls) ==
    CASE cls = "Exception" -> "BaseException"
      [] cls = "KeyboardInterrupt" -> "BaseException"
      [] cls = "OSError" -> "Exception"
      [] cls = "IndexError" -> "Exception"
      [] cls = "UnboundLocalError" -> "Exception"
      [] cls = "DecompressionBombError" -> "Exception"
      [] cls = "FileNotFoundError" -> "OSError"
      [] cls = "BrokenPipeError" -> "OSError"
      [] cls = "UnidentifiedImageError" -> "OSError"
      [] OTHER -> "BaseException"

RECURSIVE IsInstance(_, _)
IsInstance(cls, base) ==
    IF cls = base THEN TRUE
    ELSE IF cls = "BaseException" THEN FALSE
    ELSE IsInstance(Parent(cls), base)

\* `except OSError:` of from_path.  The mutant is a bare `except:`.
ExceptAnything(e) == TRUE
ExceptOSError(e) == IsInstance(e.type, "OSError")

\* `except Exception:` of show.
ExceptException(e) == IsInstance(e.type, "Exception")

\* ------------------------------------------------------------- palette
PIXEL == "PIXEL"
NEWLINE == "NEWLINE"
RESET_ALL == "Style.RESET_ALL"

COLORS == <<
    << <<30, 34, 36>>,    <<"Fore.BLACK", "Style.DIM">> >>,
    << <<10, 39, 53>>,    <<"Fore.BLACK", "Style.NORMAL">> >>,
    << <<85, 87, 87>>,    <<"Fore.BLACK", "Style.BRIGHT">> >>,
    << <<160, 160, 160>>, <<"Fore.WHITE", "Style.DIM">> >>,
    << <<220, 220, 220>>, <<"Fore.WHITE", "Style.NORMAL">> >>,
    << <<255, 255, 255>>, <<"Fore.WHITE", "Style.BRIGHT">> >>,
    << <<88, 0, 0>>,      <<"Fore.RED", "Style.DIM">> >>,
    << <<204, 0, 0>>,     <<"Fore.RED", "Style.NORMAL">> >>,
    << <<239, 41, 41>>,   <<"Fore.RED", "Style.BRIGHT">> >>,
    << <<52, 103, 4>>,    <<"Fore.GREEN", "Style.DIM">> >>,
    << <<78, 154, 6>>,    <<"Fore.GREEN", "Style.NORMAL">> >>,
    << <<138, 226, 52>>,  <<"Fore.GREEN", "Style.BRIGHT">> >>,
    << <<131, 107, 0>>,   <<"Fore.YELLOW", "Style.DIM">> >>,
    << <<169, 160, 0>>,   <<"Fore.YELLOW", "Style.NORMAL">> >>,
    << <<252, 233, 79>>,  <<"Fore.YELLOW", "Style.BRIGHT">> >>,
    << <<34, 67, 109>>,   <<"Fore.BLUE", "Style.DIM">> >>,
    << <<52, 101, 164>>,  <<"Fore.BLUE", "Style.NORMAL">> >>,
    << <<173, 127, 168>>, <<"Fore.BLUE", "Style.BRIGHT">> >>,
    << <<90, 60, 90>>,    <<"Fore.MAGENTA", "Style.DIM">> >>,
    << <<125, 80, 125>>,  <<"Fore.MAGENTA", "Style.NORMAL">> >>,
    << <<190, 130, 190>>, <<"Fore.MAGENTA", "Style.BRIGHT">> >>,
    << <<4, 101, 103>>,   <<"Fore.CYAN", "Style.DIM">> >>,
    << <<6, 152, 154>>,   <<"Fore.CYAN", "Style.NORMAL">> >>,
    << <<52, 226, 226>>,  <<"Fore.CYAN", "Style.BRIGHT">> >>
>>

\* The number of slots of a 'P' image's palette.
PaletteSlots == 256

\* PALETTE_DATA: the colours' channels, then COLORS[0]'s repeated.
PALETTE_DATA ==
    [k \in 1..(3 * Len(COLORS)) |-> COLORS[((k - 1) \div 3) + 1][1][((k - 1) % 3) + 1]]
    \o [k \in 1..(3 * (PaletteSlots - Len(COLORS))) |-> COLORS[1][1][((k - 1) % 3) + 1]]

\* The RGB triple PALETTE holds for palette index i (0-based).
PaletteRGB(i) ==
    <<PALETTE_DATA[3 * i + 1], PALETTE_DATA[3 * i + 2], PALETTE_DATA[3 * i + 3]>>

\* color(pixel): COLORS[pixel][1], an IndexError past the table's end.
color(pixel) ==
    IF pixel >= 0 /\ pixel < Len(COLORS)
    THEN Ok(COLORS[pixel + 1][2])
    ELSE Raise(Exc("IndexError", <<>>))

\* ------------------------------------------------------------ renderer
\* get_terminal_size(): two columns and two lines less than the terminal.
get_terminal_size(term_size) == <<term_size[1] - 2, term_size[2] - 2>>

\* `last = None`: no glyph equals it.
None == <<>>

\* PIXEL if color_pxl == last else color_pxl.  The mutant compares the
\* foreground colour alone.
EmitForeOnly(color_pxl, last) ==
    IF last # None /\ color_pxl[1] = last[1] THEN <<PIXEL>> ELSE color_pxl
Emit(color_pxl, last) ==
    IF color_pxl = last THEN <<PIXEL>> ELSE color_pxl

\* The inner loop over x: the row's cells and the value `last` ends with.
RECURSIVE RowLoop(_, _, _, _)
RowLoop(row, x, last, line) ==
    IF x > Len(row) THEN [line |-> line, last |-> last]
    ELSE LET color_pxl == color(row[x]).val \o <<PIXEL>>
         IN  RowLoop(row, x + 1, color_pxl, Append(line, Emit(color_pxl, last)))

\* The outer loop over y.  The mutant starts every row with last = None.
RECURSIVE ImageLoopRowReset(_, _, _, _)
ImageLoopRowReset(image, y, last, image_content) ==
    IF y > Len(image) THEN image_content
    ELSE LET r == RowLoop(image[y], 1, None, <<>>)
         IN  ImageLoopRowReset(image, y + 1, r.last, Append(image_content, r.line))
RECURSIVE ImageLoop(_, _, _, _)
ImageLoop(image, y, last, image_content) ==
    IF y > Len(image) THEN image_content
    ELSE LET r == RowLoop(image[y], 1, last, <<>>)
         IN  ImageLoop(image, y + 1, r.last, Append(image_content, r.line))

RECURSIVE Concat(_)
Concat(seqs) == IF seqs = <<>> THEN <<>> ELSE Head(seqs) \o Concat(Tail(seqs))

\* sep.join(parts)
RECURSIVE Join(_, _)
Join(sep, parts) ==
    IF parts = <<>> THEN <<>>
    ELSE IF Len(parts) = 1 THEN parts[1]
    ELSE parts[1] \o sep \o Join(sep, Tail(parts))

\* The cells image_to_str collects for a resized palette image.
ImageContent(resized_image) == ImageLoop(resized_image, 1, None, <<>>)

\* image_to_str on the resized palette image: the joined rows and the
\* reset, or the IndexError of the first pixel color() has no entry for.
image_to_str(resized_image) ==
    IF \E y \in DOMAIN resized_image : \E x \in DOMAIN resized_image[y] :
           color(resized_image[y][x]).exc # NoExc
    THEN Raise(Exc("IndexError", <<>>))
    ELSE Ok(Join(<<NEWLINE>>,
                 [y \in DOMAIN resized_image |->
                     Concat(ImageContent(resized_image)[y])])
            \o <<RESET_ALL>>)

\* The palette images of a width x height terminal area over some indices.
Grids(width, height, pixels) == [1..height -> [1..width -> pixels]]


\* ------------------------------------------------------------ terminal
ForeCodes == {COLORS[i][2][1] : i \in DOMAIN COLORS}
StyleCodes == {COLORS[i][2][2] : i \in DOMAIN COLORS}

\* The styling a terminal is in: a foreground colour and an intensity.
DefaultStyle == [fg |-> "default", st |-> "default"]

\* The terminal's styling after one more token.
TermStep(style, tok) ==
    IF tok = RESET_ALL THEN DefaultStyle
    ELSE IF tok \in ForeCodes THEN [style EXCEPT !.fg = tok]
    ELSE IF tok \in StyleCodes THEN [style EXCEPT !.st = tok]
    ELSE style

RECURSIVE TermAfter(_, _)
TermAfter(style, toks) ==
    IF toks = <<>> THEN style
    ELSE TermAfter(TermStep(style, Head(toks)), Tail(toks))

\* The styling each block character of toks is displayed in, in order.
RECURSIVE Displayed(_, _)
Displayed(style, toks) ==
    IF toks = <<>> THEN <<>>
    ELSE IF Head(toks) = PIXEL
         THEN <<style>> \o Displayed(style, Tail(toks))
         ELSE Displayed(TermStep(style, Head(toks)), Tail(toks))

\* What print(*args) writes: the text and the line end.
PrintText(text) == text \o <<NEWLINE>>

\* --------------------------------------------------------------- state
VARIABLES
    \* the renderer on its own
    r_pc, resized_image, image_content, r_out, looked,
    \* TerminalImage.__init__
    cpc, image, ci, frames, durations, cexc,
    \* TerminalImage.from_path and video_to_gif
    fpc, tempExists, transcodes, opened, firstExc, exitCode, pending, fexc,
    \* TerminalImage.show and the terminal
    spc, animated, repeat, playlist, rep, idx, sexc,
    term, lastWrite, shown, lastFrame, log

renderVars == <<r_pc, resized_image, image_content, r_out, looked>>
ctorVars == <<cpc, image, ci, frames, durations, cexc>>
loadVars == <<fpc, tempExists, transcodes, opened, firstExc, exitCode, pending, fexc>>
showVars == <<spc, animated, repeat, playlist, rep, idx, sexc,
              term, lastWrite, shown, lastFrame, log>>
vars == <<renderVars, ctorVars, loadVars, showVars>>

\* ------------------------------------------------------ decoded images
\* A frame of a decoded image, as __init__ meets it: pix is the frame
\* after compress() and resize() (the codec library's work), info its
\* metadata, and truncated says that loading its pixel data raises OSError.
Info(ms) == [k \in {"duration"} |-> ms]
NoInfo == [k \in {} |-> 0]

SourceFrames(term_size, pixels, infos) ==
    LET size == get_terminal_size(term_size)
    IN  [pix : Grids(size[1], size[2], pixels), info : infos, truncated : BOOLEAN]

\* The decoded images of 1..MaxFrames frames.
Images(frameSet) == UNION {[1..n -> frameSet] : n \in 1..MaxFrames}

\* frame.info.get(key, default)
info_get(info, key, default) == IF key \in DOMAIN info THEN info[key] ELSE default

\* a / b, exactly.
Div(a, b) == [num |-> a, den |-> b]
RatEq(r, s) == r.num * s.den = s.num * r.den

\* frame.info.get("duration", 200) / 1000.  The mutant keeps milliseconds.
FrameDurationMs(frame) == Div(info_get(frame.info, "duration", 200), 1)
FrameDuration(frame) == Div(info_get(frame.info, "duration", 200), 1000)

\* ------------------------------------------------ TerminalImage.__init__
\* self.frames = []; self.durations = []; the loop starts at the first frame.
CtorEnter(img) ==
    /\ image' = img
    /\ frames' = <<>>
    /\ durations' = <<>>
    /\ ci' = 1
    /\ cexc' = NoExc
    /\ cpc' = "loop"

\* image_to_str(frame) and durations.append(...): lines 121-122.
CtorRender ==
    /\ cpc = "loop"
    /\ ci <= Len(image)
    /\ LET frame == image[ci]
           r == IF frame.truncated THEN Raise(Exc("OSError", <<>>))
                ELSE image_to_str(frame.pix)
       IN  IF r.exc # NoExc
           THEN /\ cpc' = "raised"
                /\ cexc' = r.exc
                /\ UNCHANGED durations
           ELSE /\ cpc' = "append"
                /\ durations' = Append(durations, FrameDuration(frame))
                /\ UNCHANGED cexc
    /\ UNCHANGED <<image, ci, frames>>
    /\ UNCHANGED <<renderVars, loadVars, showVars>>

\* frames.append(image_str) and the progress line: lines 123-126.
CtorAppend ==
    /\ cpc = "append"
    /\ frames' = Append(frames, image_to_str(image[ci].pix).val)
    /\ ci' = ci + 1
    /\ cpc' = "loop"
    /\ UNCHANGED <<image, durations, cexc>>
    /\ UNCHANGED <<renderVars, loadVars, showVars>>

\* The iterator is exhausted: __init__ returns.
CtorReturn ==
    /\ cpc = "loop"
    /\ ci > Len(image)
    /\ cpc' = "done"
    /\ UNCHANGED <<image, ci, frames, durations, cexc>>
    /\ UNCHANGED <<renderVars, loadVars, showVars>>

Ctor == CtorRender \/ CtorAppend \/ CtorReturn

\* ---------------------------------------------------- TerminalImage.show
\* The terminal's history keeps this many events; later ones are dropped.
LogCap == 2 * (MaxRepeat + 1) * MaxFrames + 3
Record(l, e) == IF Len(l) < LogCap THEN Append(l, e) ELSE l

\* frames = self.frames if animated else [self.frames[0]].  The mutant
\* plays every frame whatever animated says.
PlaylistAll(anim, fr) == fr
Playlist(anim, fr) == IF anim THEN fr ELSE <<fr[1]>>

\* `if repeat <= -1:`.  The mutant tests repeat < -1.
LoopsForeverStrict(n) == n < -1
LoopsForever(n) == n <= -1

\* range(repeat + 1): the number of passes.  The mutant is range(repeat).
PassesOneLess(n) == n
Passes(n) == n + 1

RepeatValues == (-2)..MaxRepeat

\* show(animated, repeat) is called on the constructed object.
ShowCall(anim, n) ==
    /\ spc = "idle"
    /\ cpc = "done"
    /\ animated' = anim
    /\ repeat' = n
    /\ playlist' = Playlist(anim, frames)
    /\ rep' = 0
    /\ idx' = 1
    /\ spc' = IF ~LoopsForever(n) /\ Passes(n) <= 0 THEN "Stopped" ELSE "sleep"
    /\ UNCHANGED <<sexc, term, lastWrite, shown, lastFrame, log>>
    /\ UNCHANGED <<renderVars, ctorVars, loadVars>>

\* An exception e leaves the try block: `except Exception` takes it or not.
Thrown(e) ==
    /\ sexc' = e
    /\ spc' = IF ExceptException(e) THEN "handler" ELSE "Raised"

\* sleep(self.durations[i]) returns.
ShowSleep ==
    /\ spc = "sleep"
    /\ log' = Record(log, <<"sleep", durations[idx]>>)
    /\ spc' = "print"
    /\ UNCHANGED <<animated, repeat, playlist, rep, idx, sexc,
                   term, lastWrite, shown, lastFrame>>
    /\ UNCHANGED <<renderVars, ctorVars, loadVars>>

\* The interrupt signal arrives during the sleep: KeyboardInterrupt.
ShowSleepInterrupted ==
    /\ spc = "sleep"
    /\ Thrown(Exc("KeyboardInterrupt", <<>>))
    /\ UNCHANGED <<animated, repeat, playlist, rep, idx,
                   term, lastWrite, shown, lastFrame, log>>
    /\ UNCHANGED <<renderVars, ctorVars, loadVars>>

\* print(f"\n\n{frame}") completes, and the loops advance.
ShowPrint ==
    /\ spc = "print"
    /\ LET text == PrintText(<<NEWLINE, NEWLINE>> \o playlist[idx])
       IN  /\ lastWrite' = text
           /\ shown' = Displayed(term, text)
           /\ term' = TermAfter(term, text)
    /\ lastFrame' = idx
    /\ log' = Record(log, <<"print", idx>>)
    /\ IF idx < Len(playlist)
       THEN /\ idx' = idx + 1
            /\ spc' = "sleep"
            /\ UNCHANGED rep
       ELSE IF LoopsForever(repeat)
       THEN /\ idx' = 1
            /\ spc' = "sleep"
            /\ UNCHANGED rep
       ELSE IF rep + 1 < Passes(repeat)
       THEN /\ rep' = rep + 1
            /\ idx' = 1
            /\ spc' = "sleep"
       ELSE /\ spc' = "Stopped"
            /\ UNCHANGED <<rep, idx>>
    /\ UNCHANGED <<animated, repeat, playlist, sexc>>
    /\ UNCHANGED <<renderVars, ctorVars, loadVars>>

\* The print fails after writing n tokens of its text: the interrupt signal
\* arrives, or the write fails (a closed pipe).
ShowPrintFails(e, n) ==
    /\ spc = "print"
    /\ LET part == SubSeq(PrintText(<<NEWLINE, NEWLINE>> \o playlist[idx]), 1, n)
       IN  /\ lastWrite' = part
           /\ shown' = Displayed(term, part)
           /\ term' = TermAfter(term, part)
    /\ lastFrame' = idx
    /\ Thrown(e)
    /\ UNCHANGED <<animated, repeat, playlist, rep, idx, log>>
    /\ UNCHANGED <<renderVars, ctorVars, loadVars>>

\* except Exception: print(Style.RESET_ALL); raise
ShowHandler ==
    /\ spc = "handler"
    /\ LET text == PrintText(<<RESET_ALL>>)
       IN  /\ lastWrite' = text
           /\ shown' = Displayed(term, text)
           /\ term' = TermAfter(term, text)
    /\ log' = Record(log, <<"reset", 0>>)
    /\ spc' = "Raised"
    /\ UNCHANGED <<animated, repeat, playlist, rep, idx, sexc, lastFrame>>
    /\ UNCHANGED <<renderVars, ctorVars, loadVars>>

PrintFailures == {Exc("KeyboardInterrupt", <<>>), Exc("BrokenPipeError", <<>>)}

ShowStep == ShowSleep \/ ShowPrint

\* The print fails at any point of its text.
ShowPrintFailsAnywhere ==
    /\ spc = "print"
    /\ \E e \in PrintFailures :
         \E n \in 0..Len(PrintText(<<NEWLINE, NEWLINE>> \o playlist[idx])) :
            ShowPrintFails(e, n)

\* The print fails before it writes anything.
ShowPrintFailsAtStart ==
    /\ spc = "print"
    /\ \E e \in PrintFailures : ShowPrintFails(e, 0)

ShowCalled == \E anim \in BOOLEAN, n \in RepeatValues : ShowCall(anim, n)

Show ==
    \/ ShowCalled
    \/ ShowStep
    \/ ShowSleepInterrupted
    \/ ShowPrintFailsAnywhere
    \/ ShowHandler

\* ------------------------------------- from_path and video_to_gif
\* What Image.open raises on a file it cannot open as an image, and on one
\* it refuses to decode.
OpenFailures == {Exc("UnidentifiedImageError", <<>>), Exc("DecompressionBombError", <<>>)}

\* The transcoder's exit codes.
ExitCodes == {0, 1, 255, -9}

\* `if code != 0:`.  The mutant tests code < 0.
ExitFailsNegative(code) == code < 0
ExitFails(code) == code # 0

\* The images a file or a transcoded file decodes to.
LoadTerminal == <<3, 3>>
LoadFrames == SourceFrames(LoadTerminal, {0, 255}, {NoInfo})

\* from_path(path): Image.open(path) succeeds, TerminalImage(...) is entered.
Open1Ok ==
    /\ fpc = "idle"
    /\ cpc = "idle"
    /\ opened' = TRUE
    /\ \E img \in Images(LoadFrames) : CtorEnter(img)
    /\ fpc' = "ctor1"
    /\ UNCHANGED <<tempExists, transcodes, firstExc, exitCode, pending, fexc>>
    /\ UNCHANGED <<renderVars, showVars>>

\* An exception e leaves the first try block: `except OSError: pass`.
FirstAttemptRaises(e) ==
    /\ firstExc' = e
    /\ IF ExceptOSError(e)
       THEN fpc' = "fallback" /\ UNCHANGED fexc
       ELSE fpc' = "raised" /\ fexc' = e

\* Image.open(path) raises.
Open1Fails ==
    /\ fpc = "idle"
    /\ cpc = "idle"
    /\ \E e \in OpenFailures : FirstAttemptRaises(e)
    /\ UNCHANGED <<tempExists, transcodes, opened, exitCode, pending>>
    /\ UNCHANGED <<renderVars, ctorVars, showVars>>

\* return TerminalImage(image=Image.open(path))
Ctor1Returns ==
    /\ fpc = "ctor1"
    /\ cpc = "done"
    /\ fpc' = "returned"
    /\ UNCHANGED <<tempExists, transcodes, opened, firstExc, exitCode, pending, fexc>>
    /\ UNCHANGED <<renderVars, ctorVars, showVars>>

\* TerminalImage(...) raises inside the first try block.
Ctor1Raises ==
    /\ fpc = "ctor1"
    /\ cpc = "raised"
    /\ FirstAttemptRaises(cexc)
    /\ UNCHANGED <<tempExists, transcodes, opened, exitCode, pending>>
    /\ UNCHANGED <<renderVars, ctorVars, showVars>>

\* video_to_gif: Popen cannot start ffmpeg and raises FileNotFoundError; the
\* finally block's process.wait() then raises UnboundLocalError in its place.
VideoToGifNoStart ==
    /\ fpc = "fallback"
    /\ transcodes' = transcodes + 1
    /\ pending' = Exc("UnboundLocalError", <<>>)
    /\ fpc' = "cleanup"
    /\ UNCHANGED <<tempExists, opened, firstExc, exitCode, fexc>>
    /\ UNCHANGED <<renderVars, ctorVars, showVars>>

\* video_to_gif: ffmpeg runs and exits with code; a failing run may leave a
\* partial output file behind.
VideoToGifExits(code, wrote) ==
    /\ fpc = "fallback"
    /\ transcodes' = transcodes + 1
    /\ exitCode' = <<code>>
    /\ tempExists' = IF code = 0 THEN TRUE ELSE (tempExists \/ wrote)
    /\ IF ExitFails(code)
       THEN /\ pending' = Exc("OSError", <<"ffmpeg error: exit with", code>>)
            /\ fpc' = "cleanup"
       ELSE /\ pending' = NoExc
            /\ fpc' = "open2"
    /\ UNCHANGED <<opened, firstExc, fexc>>
    /\ UNCHANGED <<renderVars, ctorVars, showVars>>

\* Image.open(out_path) succeeds, TerminalImage(...) is entered.
Open2Ok ==
    /\ fpc = "open2"
    /\ tempExists
    /\ \E img \in Images(LoadFrames) : CtorEnter(img)
    /\ fpc' = "ctor2"
    /\ UNCHANGED <<tempExists, transcodes, opened, firstExc, exitCode, pending, fexc>>
    /\ UNCHANGED <<renderVars, showVars>>

\* Image.open(out_path) raises: the file is missing or is no image.
Open2Fails ==
    /\ fpc = "open2"
    /\ pending' = IF tempExists THEN Exc("UnidentifiedImageError", <<>>)
                  ELSE Exc("FileNotFoundError", <<>>)
    /\ fpc' = "cleanup"
    /\ UNCHANGED <<tempExists, transcodes, opened, firstExc, exitCode, fexc>>
    /\ UNCHANGED <<renderVars, ctorVars, showVars>>

\* TerminalImage(...) of the transcoded image returns or raises.
Ctor2Ends ==
    /\ fpc = "ctor2"
    /\ cpc \in {"done", "raised"}
    /\ pending' = cexc
    /\ fpc' = "cleanup"
    /\ UNCHANGED <<tempExists, transcodes, opened, firstExc, exitCode, fexc>>
    /\ UNCHANGED <<renderVars, ctorVars, showVars>>

\* finally: os.remove(out_path), a FileNotFoundError passed over; then the
\* pending return or exception goes on.
Cleanup ==
    /\ fpc = "cleanup"
    /\ tempExists' = FALSE
    /\ IF pending = NoExc
       THEN fpc' = "returned" /\ UNCHANGED fexc
       ELSE fpc' = "raised" /\ fexc' = pending
    /\ UNCHANGED <<transcodes, opened, firstExc, exitCode, pending>>
    /\ UNCHANGED <<renderVars, ctorVars, showVars>>

Load ==
    \/ Open1Ok
    \/ Open1Fails
    \/ Ctor1Returns
    \/ Ctor1Raises
    \/ VideoToGifNoStart
    \/ \E code \in ExitCodes, wrote \in BOOLEAN : VideoToGifExits(code, wrote)
    \/ Open2Ok
    \/ Open2Fails
    \/ Ctor2Ends
    \/ Cleanup

\* ------------------------------------------------- the renderer alone
TermSizes == {<<c, l>> : c \in 3..MaxCols, l \in 3..MaxLines}
RenderPixels == {0, 1, 7, 255}

\* image_to_str(image) on a terminal of some size.
RenderCall ==
    /\ r_pc = "idle"
    /\ \E size \in TermSizes :
         LET area == get_terminal_size(size)
         IN  \E grid \in Grids(area[1], area[2], RenderPixels) :
               /\ resized_image' = grid
               /\ r_out' = image_to_str(grid)
               /\ image_content' = IF image_to_str(grid).exc = NoExc
                                   THEN ImageContent(grid) ELSE <<>>
    /\ r_pc' = "rendered"
    /\ UNCHANGED <<looked, tempExists>>
    /\ UNCHANGED <<ctorVars, showVars>>
    /\ UNCHANGED <<fpc, transcodes, opened, firstExc, exitCode, pending, fexc>>

\* A palette index is looked up: its RGB triple in PALETTE, its code by color().
Lookup ==
    /\ r_pc = "idle"
    /\ \E i \in 0..(PaletteSlots - 1) :
         looked' = [index |-> i, rgb |-> PaletteRGB(i), code |-> color(i)]
    /\ r_pc' = "looked"
    /\ UNCHANGED <<resized_image, image_content, r_out>>
    /\ UNCHANGED <<ctorVars, loadVars, showVars>>

\* ------------------------------------------------------- specifications
Idle ==
    /\ r_pc = "idle" /\ resized_image = <<>> /\ image_content = <<>>
    /\ r_out = Ok(<<>>) /\ looked = <<>>
    /\ cpc = "idle" /\ image = <<>> /\ ci = 0 /\ frames = <<>>
    /\ durations = <<>> /\ cexc = NoExc
    /\ fpc = "idle" /\ transcodes = 0 /\ opened = FALSE /\ firstExc = NoExc
    /\ exitCode = <<>> /\ pending = NoExc /\ fexc = NoExc
    /\ spc = "idle" /\ animated = FALSE /\ repeat = 0 /\ playlist = <<>>
    /\ rep = 0 /\ idx = 0 /\ sexc = NoExc
    /\ lastWrite = <<>> /\ shown = <<>> /\ lastFrame = 0 /\ log = <<>>

\* The styling earlier output may have left the terminal in.
InitialStyles == {DefaultStyle, [fg |-> "Fore.BLACK", st |-> "Style.NORMAL"]}

Init == Idle /\ tempExists = FALSE /\ term \in InitialStyles

\* The terminal the player's images are rendered for, the palette indices
\* of their pixels (255 has no COLORS entry) and their metadata.
PlayerTerminal == <<4, 3>>
PlayerFrames == SourceFrames(PlayerTerminal, {0, 1, 255}, {NoInfo, Info(100)})

\* TerminalImage(image=<a decoded image>) is called.
Construct ==
    /\ cpc = "idle"
    /\ fpc = "idle"
    /\ \E img \in Images(PlayerFrames) : CtorEnter(img)
    /\ UNCHANGED <<renderVars, loadVars, showVars>>

\* A TerminalImage is constructed from a decoded image, then shown.
Next == Construct \/ Ctor \/ Show

Spec == Init /\ [][Next]_vars

\* TerminalImage(image=<a decoded image of one-cell frames>) is called.
LiveFrames == SourceFrames(LoadTerminal, {0, 1}, {NoInfo, Info(100)})
LiveConstruct ==
    /\ cpc = "idle"
    /\ fpc = "idle"
    /\ \E img \in Images(LiveFrames) : CtorEnter(img)
    /\ UNCHANGED <<renderVars, loadVars, showVars>>

LiveNext ==
    \/ LiveConstruct
    \/ Ctor
    \/ ShowCalled
    \/ ShowStep
    \/ ShowSleepInterrupted
    \/ ShowPrintFailsAtStart
    \/ ShowHandler

\* The program is one thread: a sleep that is not interrupted returns and a
\* print that does not fail completes.
LiveSpec == Init /\ [][LiveNext]_vars /\ WF_vars(ShowStep)

\* from_path(path) on a file system where out_path may already exist.
LoadInit == Idle /\ tempExists \in BOOLEAN /\ term = DefaultStyle
LoadNext == Load \/ Ctor
SpecLoad == LoadInit /\ [][LoadNext]_vars

\* The renderer and the palette on their own.
RenderNext == RenderCall \/ Lookup
RenderInit == Idle /\ tempExists = FALSE /\ term = DefaultStyle
SpecRender == RenderInit /\ [][RenderNext]_vars

\* --------------------------------------------------------------- claims
Finished == fpc \in {"returned", "raised"}
PrintEvents == {k \in DOMAIN log : log[k][1] = "print"}
PrintCount == Cardinality(PrintEvents)
\* The text a completed print of frame i of the object writes.
FrameText(i) == <<NEWLINE, NEWLINE>> \o frames[i] \o <<NEWLINE>>
LastIsPrint == log # <<>> /\ log[Len(log)][1] = "print"
\* The events of playback, without the handler's reset.
Played == SelectSeq(log, LAMBDA e : e[1] # "reset")
IsPrefix(a, b) == Len(a) <= Len(b) /\ a = SubSeq(b, 1, Len(a))
\* The styling COLORS gives palette index p.
StyleOf(p) == [fg |-> COLORS[p + 1][2][1], st |-> COLORS[p + 1][2][2]]

\* C1 as stated: show(animated=false, repeat) prints frame 0 exactly once
\* whatever repeat is: never more than one print, and exactly one on return.
C1_StillPrintsOnce ==
    (spc # "idle" /\ ~animated) =>
        /\ PrintCount <= 1
        /\ spc = "Stopped" => PrintCount = 1

\* C1 as amended: show(animated=false, repeat) prints only frame 0; it
\* returns after exactly repeat + 1 prints when repeat >= 0 and never
\* returns when repeat <= -1.
C1_StillRepeats ==
    (spc # "idle" /\ ~animated) =>
        /\ \A k \in PrintEvents : log[k][2] = 1
        /\ LastIsPrint => lastWrite = FrameText(1)
        /\ spc = "Stopped" => (repeat >= 0 /\ PrintCount = repeat + 1)
        /\ repeat <= -1 => spc # "Stopped"

C1_Witness ==
    /\ spc = "Stopped" /\ ~animated /\ repeat = 1
    /\ Len(frames) = 2 /\ PrintCount = 2

\* C2: when show ends with an exception (an interrupt during a sleep or a
\* print, or a failed print), the last thing written to the terminal is the
\* style reset and the terminal is left unstyled.
C2_ResetBeforeRaise ==
    spc = "Raised" => (lastWrite = PrintText(<<RESET_ALL>>) /\ term = DefaultStyle)

\* The events of k + 1 passes over n frames: each print after its sleep.
ExpectedLog(n, k) ==
    [j \in 1..(2 * (k + 1) * n) |->
        LET f == (((j - 1) \div 2) % n) + 1
        IN  IF j % 2 = 1 THEN <<"sleep", durations[f]>> ELSE <<"print", f>>]

\* C3: show(animated=true, repeat=k), k >= 0, on N frames sleeps and prints
\* in k + 1 passes over frames 0..N-1, each print of frame i right after a
\* sleep of durations[i]; it has returned exactly when all (k+1)*N frames
\* are printed, and nothing follows.
C3_FinitePlayback ==
    (spc # "idle" /\ animated /\ repeat >= 0) =>
        /\ IsPrefix(Played, ExpectedLog(Len(frames), repeat))
        /\ LastIsPrint => lastWrite = FrameText(log[Len(log)][2])
        /\ spc = "Stopped" <=> log = ExpectedLog(Len(frames), repeat)
        /\ spc = "Stopped" => PrintCount = (repeat + 1) * Len(frames)

C3_Witness ==
    /\ spc = "Stopped" /\ animated /\ repeat = 1 /\ Len(frames) = 2
    /\ durations[1] # durations[2] /\ frames[1] # frames[2]
    /\ PrintCount = 4

\* What C7 says of the object while and after it is constructed.
ConstructedRight ==
    cpc # "idle" =>
        /\ Len(frames) <= Len(durations)
        /\ Len(durations) <= Len(frames) + 1
        /\ cpc \in {"loop", "done"} => Len(durations) = Len(frames)
        /\ cpc = "done" => Len(frames) = Len(image)
        /\ Len(durations) <= Len(image)
        /\ \A i \in DOMAIN frames : Ok(frames[i]) = image_to_str(image[i].pix)
        /\ \A i \in DOMAIN durations :
              IF "duration" \in DOMAIN image[i].info
              THEN RatEq(durations[i], Div(image[i].info["duration"], 1000))
              ELSE RatEq(durations[i], Div(2, 10))

\* C7: construction renders the N source frames once each, in order:
\* frames[i] is the rendering of source frame i and durations[i] its duration
\* metadata / 1000, or 0.2 without metadata; frames is never longer than
\* durations nor more than one entry shorter, both have N entries at the
\* end; and show() changes neither.
C7_Construction ==
    /\ []ConstructedRight
    /\ [][spc' # "idle" => (frames' = frames /\ durations' = durations)]_vars

C7_Witness ==
    /\ cpc = "done" /\ Len(frames) = 2 /\ spc = "Stopped"
    /\ "duration" \in DOMAIN image[1].info
    /\ "duration" \notin DOMAIN image[2].info

\* C10: every block character a print of a frame puts on the terminal
\* (a whole frame, or the part written before a failure) is displayed in the
\* styling COLORS gives its pixel; a completed print shows every pixel and
\* leaves the terminal unstyled; every rendered frame starts with a colour
\* code and ends with the reset.
C10_Lossless ==
    /\ \A i \in DOMAIN frames :
          frames[i][1] \in ForeCodes /\ frames[i][Len(frames[i])] = RESET_ALL
    /\ lastFrame > 0 =>
          LET pixels == Concat(image[lastFrame].pix)
          IN  /\ Len(shown) <= Len(pixels)
              /\ \A k \in DOMAIN shown : shown[k] = StyleOf(pixels[k])
              /\ (LastIsPrint /\ spc # "Raised") =>
                    (Len(shown) = Len(pixels) /\ term = DefaultStyle)

C10_Witness ==
    /\ Len(frames) = 2 /\ lastFrame = 2 /\ LastIsPrint /\ PrintCount >= 2
    /\ image[1].pix[1][2] = image[2].pix[1][1]
    /\ image[2].pix[1][1] = image[2].pix[1][2]
    /\ Len(shown) = 2

\* show(animated=true, repeat=-1) has been called.
ShowForever == spc # "idle" /\ animated /\ repeat = -1
Failed == spc \in {"handler", "Raised"}

\* C9: show(animated=true, repeat=-1) never returns; each print is of the
\* frame after the one printed before, cyclically; and unless an interrupt
\* or a print failure ends it, every frame is printed again and again.
C9_LoopsForever ==
    /\ [](ShowForever => spc # "Stopped")
    /\ [][(ShowForever /\ spc = "print" /\ spc' = "sleep") =>
            /\ lastFrame' = idx
            /\ lastWrite' = FrameText(idx)
            /\ idx' = (idx % Len(frames)) + 1]_vars
    /\ \A i \in 1..MaxFrames :
          /\ (ShowForever /\ i <= Len(frames) /\ spc = "print")
                ~> (Failed \/ (spc = "sleep" /\ lastFrame = i))
          /\ (ShowForever /\ spc = "sleep") ~> (Failed \/ spc = "print")

C9_Witness ==
    /\ ShowForever /\ Len(frames) = 2 /\ Len(log) = LogCap
    /\ spc = "sleep" /\ lastFrame = 2 /\ idx = 1

\* C5: once from_path is over after entering the video fallback, out_path
\* does not exist; and when ffmpeg exited with a non-zero code, the
\* transcoded file is never opened and from_path raises the OSError whose
\* message carries that code.
C5_FallbackCleansUp ==
    /\ (Finished /\ transcodes > 0) => ~tempExists
    /\ (exitCode # <<>> /\ exitCode[1] # 0) =>
          /\ fpc \in {"cleanup", "raised"}
          /\ fpc = "raised" =>
                fexc = Exc("OSError", <<"ffmpeg error: exit with", exitCode[1]>>)

C5_Witness ==
    /\ fpc = "raised" /\ exitCode = <<255>> /\ ~tempExists /\ opened

C5_WitnessSuccess ==
    /\ fpc = "returned" /\ exitCode = <<0>> /\ ~tempExists /\ Len(frames) = 2

\* C8 as stated: when the first Image.open succeeded, the transcoder is
\* never invoked.
C8_OpenedNeverTranscodes == opened => transcodes = 0

\* C8 as amended: the fallback is entered exactly when the first attempt
\* (Image.open or the construction from the opened image) raises an
\* OSError; such an OSError reaches the caller only as the fallback's own
\* failure; any other exception of the first attempt is raised at once,
\* without the transcoder.
C8_FallbackOnOSError ==
    /\ (transcodes > 0 \/ fpc \in {"fallback", "open2", "ctor2", "cleanup"})
          => IsInstance(firstExc.type, "OSError")
    /\ transcodes <= 1
    /\ (Finished /\ firstExc # NoExc /\ IsInstance(firstExc.type, "OSError"))
          => transcodes = 1
    /\ (fpc = "raised" /\ transcodes = 0) =>
          (fexc = firstExc /\ ~IsInstance(firstExc.type, "OSError"))
    /\ (fpc = "raised" /\ transcodes > 0) => (fexc = pending /\ pending # NoExc)
    /\ (Finished /\ firstExc = NoExc) => (fpc = "returned" /\ transcodes = 0)

C8_Witness ==
    /\ opened /\ firstExc = Exc("OSError", <<>>) /\ transcodes = 1
    /\ fpc = "returned"

\* C4: every palette index 0..255 has an RGB triple and a colour code, and
\* an index past the defined colours has those of index 0.
C4_EveryIndexResolves ==
    r_pc = "looked" =>
        /\ looked.code.exc = NoExc
        /\ looked.index >= Len(COLORS) =>
              (looked.rgb = PaletteRGB(0) /\ looked.code = color(0))

\* C6: in row-major order a pixel's cell is the bare block character if and
\* only if its glyph (colour code, block character) equals the glyph of the
\* pixel before it, rows notwithstanding; otherwise the cell is the glyph.
\* The output is the rows joined by newlines, then the reset.
C6_RunLength ==
    (r_pc = "rendered" /\ r_out.exc = NoExc) =>
        LET pixels == Concat(resized_image)
            cells == Concat(image_content)
            glyph(k) == COLORS[pixels[k] + 1][2] \o <<PIXEL>>
        IN  /\ Len(cells) = Len(pixels)
            /\ Len(image_content) = Len(resized_image)
            /\ \A y \in DOMAIN resized_image :
                  Len(image_content[y]) = Len(resized_image[y])
            /\ \A k \in DOMAIN cells :
                  cells[k] = IF k > 1 /\ glyph(k) = glyph(k - 1)
                             THEN <<PIXEL>> ELSE glyph(k)
            /\ r_out.val = Join(<<NEWLINE>>,
                                [y \in DOMAIN image_content |->
                                    Concat(image_content[y])])
                           \o <<RESET_ALL>>

C6_Witness ==
    /\ r_pc = "rendered" /\ r_out.exc = NoExc
    /\ Len(resized_image) = 2 /\ Len(resized_image[1]) = 2
    /\ resized_image[2][1] = resized_image[1][2]
    /\ resized_image[1][1] # resized_image[1][2]
    /\ image_content[2][1] = <<PIXEL>>
    /\ image_content[1][1] # <<PIXEL>>

====
